---- MODULE Spec2Model ----
(***************************************************************************)
(* Metrics reducers of prodbeam/claude-mcp.                                *)
(*                                                                         *)
(* analyzeSprintActivity (src/src/generators/sprint-analyzer.ts) is        *)
(* translated statement by statement.  calculateWeeklyMetrics              *)
(* (metrics-calculator.ts) is not part of the available sources; it is     *)
(* written from section 4.4 of the specification and from its test file.   *)
(*                                                                         *)
(* Representation choices                                                  *)
(*  - an optional property (mergedAt, additions, deletions, metrics.jira)  *)
(*    is a record field that is present or not;                            *)
(*  - the optional jira argument is Undefined or a record with issues;     *)
(*  - Date.getTime() is kept relative to 2026-01-20T00:00:00Z so that the  *)
(*    values fit the checker's integers: the code only uses the order and  *)
(*    the difference of two such values;                                   *)
(*  - a ticket status is a sequence of characters, so that toLowerCase()   *)
(*    is computed character by character;                                  *)
(*  - avgMergeTimeHours has one decimal: it is kept as a number of tenths  *)
(*    of an hour, or Null.                                                 *)
(***************************************************************************)
EXTENDS Integers, Sequences, FiniteSets, TLC

VARIABLES
  github,        \* the activity bundle the caller passes
  jira,          \* the ticket argument the caller passes, or Undefined
  sprintResult,  \* what analyzeSprintActivity returned last
  weeklyResult,  \* what calculateWeeklyMetrics returned last
  calls,         \* the calls made so far: function, arguments, returned record
  env,           \* process.env
  gen            \* the generate* call of report-generator.ts in progress

vars == <<github, jira, sprintResult, weeklyResult, calls, env, gen>>

(***************************************************************************)
(* Bounds of the explored inputs                                           *)
(***************************************************************************)
MaxPRs == 4
MaxReviews == 3
MaxCommits == 3
MaxIssues == 4
MaxMixed == 3
MaxCalls == 3
MaxManyPRs == 201

(***************************************************************************)
(* JavaScript values                                                       *)
(***************************************************************************)
Undefined == [undefined |-> TRUE]
Null == [type |-> "null"]
NaN == [type |-> "NaN"]
Pending == [pending |-> TRUE]

Num(tenths) == [type |-> "number", tenths |-> tenths]

\* obj.field, for an optional property: is it there at all
Has(obj, field) == field \in DOMAIN obj

\* truthiness of an optional string property: undefined and '' are falsy
TruthyStr(obj, field) == Has(obj, field) /\ obj[field] # ""

\* value ?? 0 for an optional numeric property
OrZero(obj, field) == IF Has(obj, field) THEN obj[field] ELSE 0

\* Math.round(n / d) for n >= 0, d > 0: halves go up.  The quotient is exact
\* here; the double-precision quotients of the code round the same way for
\* the counts and durations of the inputs below (23 of 40, for one, would
\* not: 0.575 * 100 is 57.49999999999999 in doubles)
MathRound(n, d) == (2 * n + d) \div (2 * d)

\* new Date(s).getTime(): milliseconds for the ISO strings below, NaN for
\* any other string ('' and 'not-a-date' are Invalid Date)
KnownDates ==
  [s \in {"2026-01-20T00:00:00Z", "2026-01-20T00:01:00Z",
          "2026-01-20T00:03:00Z",
          "2026-01-21T00:00:00Z", "2026-01-21T12:00:00Z"} |->
     CASE s = "2026-01-20T00:00:00Z" -> 0
       [] s = "2026-01-20T00:01:00Z" -> 60000
       [] s = "2026-01-20T00:03:00Z" -> 180000
       [] s = "2026-01-21T00:00:00Z" -> 86400000
       [] s = "2026-01-21T12:00:00Z" -> 129600000]

GetTime(s) == IF s \in DOMAIN KnownDates THEN [ms |-> KnownDates[s]] ELSE NaN

\* a time value is [ms |-> n] or NaN
isNaN(v) == v = NaN

\* String.prototype.toLowerCase over the ASCII letters
UpperToLower ==
  [c \in {"A","B","C","D","E","F","G","H","I","J","K","L","M",
          "N","O","P","Q","R","S","T","U","V","W","X","Y","Z"} |->
     CASE c = "A" -> "a" [] c = "B" -> "b" [] c = "C" -> "c" [] c = "D" -> "d"
       [] c = "E" -> "e" [] c = "F" -> "f" [] c = "G" -> "g" [] c = "H" -> "h"
       [] c = "I" -> "i" [] c = "J" -> "j" [] c = "K" -> "k" [] c = "L" -> "l"
       [] c = "M" -> "m" [] c = "N" -> "n" [] c = "O" -> "o" [] c = "P" -> "p"
       [] c = "Q" -> "q" [] c = "R" -> "r" [] c = "S" -> "s" [] c = "T" -> "t"
       [] c = "U" -> "u" [] c = "V" -> "v" [] c = "W" -> "w" [] c = "X" -> "x"
       [] c = "Y" -> "y" [] c = "Z" -> "z"]

toLowerCase(s) ==
  [i \in 1..Len(s) |-> IF s[i] \in DOMAIN UpperToLower THEN UpperToLower[s[i]] ELSE s[i]]

(***************************************************************************)
(* sprint-analyzer.ts                                                      *)
(***************************************************************************)
DONE_STATUSES ==
  { <<"d","o","n","e">>,
    <<"c","l","o","s","e","d">>,
    <<"r","e","s","o","l","v","e","d">>,
    <<"c","o","m","p","l","e","t","e">>,
    <<"c","o","m","p","l","e","t","e","d">> }

\* HasMergeDuration with a duration of zero accepted
HasMergeDurationNonStrict(pr) ==
  /\ TruthyStr(pr, "createdAt")
  /\ TruthyStr(pr, "mergedAt")
  /\ LET created == GetTime(pr.createdAt)
         merged == GetTime(pr.mergedAt)
     IN /\ ~isNaN(created)
        /\ ~isNaN(merged)
        /\ merged.ms >= created.ms

\* lines 32-35: the pull request enters the merge-latency sum
HasMergeDuration(pr) ==
  /\ TruthyStr(pr, "createdAt")
  /\ TruthyStr(pr, "mergedAt")
  /\ LET created == GetTime(pr.createdAt)
         merged == GetTime(pr.mergedAt)
     IN /\ ~isNaN(created)
        /\ ~isNaN(merged)
        /\ merged.ms > created.ms

\* PrAccInit with the counters kept outside the function: a call goes on
\* from where the call before it stopped
PrAccInitShared ==
  IF sprintResult = Pending
  THEN [prMerged |-> 0, prOpen |-> 0, prClosed |-> 0,
        totalAdditions |-> 0, totalDeletions |-> 0,
        totalMergeTimeMs |-> 0, mergedWithTimestamps |-> 0]
  ELSE [prMerged |-> sprintResult.pullRequests.merged,
        prOpen |-> sprintResult.pullRequests.open,
        prClosed |-> sprintResult.pullRequests.closed,
        totalAdditions |-> sprintResult.additions,
        totalDeletions |-> sprintResult.deletions,
        totalMergeTimeMs |-> 0, mergedWithTimestamps |-> 0]

\* lines 19-27: the accumulators before the loop
PrAccInit ==
  [prMerged |-> 0, prOpen |-> 0, prClosed |-> 0,
   totalAdditions |-> 0, totalDeletions |-> 0,
   totalMergeTimeMs |-> 0, mergedWithTimestamps |-> 0]

\* the body of PrStep, with the three ways it is varied below: the states
\* taken as merged, whether a state that is not 'open' falls into closed, and
\* whether a merged pull request without a duration still adds its line counts
PrStepWith(acc, pr, mergedStates, closedStates, skipsUntimed) ==
  LET counted ==
        IF pr.state \in mergedStates
        THEN LET a == [acc EXCEPT !.prMerged = @ + 1]
             IN IF HasMergeDuration(pr)
                THEN [a EXCEPT
                        !.totalMergeTimeMs =
                           @ + (GetTime(pr.mergedAt).ms - GetTime(pr.createdAt).ms),
                        !.mergedWithTimestamps = @ + 1]
                ELSE a
        ELSE IF pr.state = "open"
        THEN [acc EXCEPT !.prOpen = @ + 1]
        ELSE IF pr.state \in closedStates
        THEN [acc EXCEPT !.prClosed = @ + 1]
        ELSE acc
  IN IF skipsUntimed /\ pr.state \in mergedStates /\ ~HasMergeDuration(pr)
     THEN counted
     ELSE [counted EXCEPT
             !.totalAdditions = @ + OrZero(pr, "additions"),
             !.totalDeletions = @ + OrZero(pr, "deletions")]

\* PrStep that counts as closed only the state 'closed'
PrStepClosedOnly(acc, pr) ==
  PrStepWith(acc, pr, {"merged"}, {"closed"}, FALSE)

\* PrStep that ignores the letter case of 'merged'
PrStepAnyCase(acc, pr) ==
  PrStepWith(acc, pr, {"merged", "Merged", "MERGED"}, {pr.state}, FALSE)

\* PrStep that leaves the iteration when a merged pull request has no duration
PrStepSkipUntimed(acc, pr) ==
  PrStepWith(acc, pr, {"merged"}, {pr.state}, TRUE)

\* PrStep that adds the line counts of merged pull requests only
PrStepMergedLinesOnly(acc, pr) ==
  LET stepped == PrStepWith(acc, pr, {"merged"}, {pr.state}, FALSE)
  IN IF pr.state = "merged"
     THEN stepped
     ELSE [stepped EXCEPT !.totalAdditions = acc.totalAdditions,
                          !.totalDeletions = acc.totalDeletions]

\* lines 30-47: one iteration of the loop over github.pullRequests
PrStep(acc, pr) ==
  LET counted ==
        IF pr.state = "merged"
        THEN LET a == [acc EXCEPT !.prMerged = @ + 1]
             IN IF HasMergeDuration(pr)
                THEN [a EXCEPT
                        !.totalMergeTimeMs =
                           @ + (GetTime(pr.mergedAt).ms - GetTime(pr.createdAt).ms),
                        !.mergedWithTimestamps = @ + 1]
                ELSE a
        ELSE IF pr.state = "open"
        THEN [acc EXCEPT !.prOpen = @ + 1]
        ELSE [acc EXCEPT !.prClosed = @ + 1]
  IN [counted EXCEPT
        !.totalAdditions = @ + OrZero(pr, "additions"),
        !.totalDeletions = @ + OrZero(pr, "deletions")]

\* the iterations lo..hi of the loop, in the order of the list; the range is
\* halved so that a list of hundreds of pull requests is walked at a depth
\* of a few calls, and the comparison has the first half evaluated before
\* the second half is entered
RECURSIVE PrLoopFromTo(_, _, _, _)
PrLoopFromTo(acc, prs, lo, hi) ==
  IF lo > hi THEN acc
  ELSE IF lo = hi THEN PrStep(acc, prs[lo])
  ELSE LET mid == (lo + hi) \div 2
           first == PrLoopFromTo(acc, prs, lo, mid)
       IN IF first = acc
          THEN PrLoopFromTo(acc, prs, mid + 1, hi)
          ELSE PrLoopFromTo(first, prs, mid + 1, hi)

PrLoop(acc, prs) == PrLoopFromTo(acc, prs, 1, Len(prs))

\* MergeRate with Math.floor
MergeRateFloor(prMerged, prTotal) ==
  IF prTotal > 0 THEN (prMerged * 100) \div prTotal ELSE 0

\* MergeRate with Math.ceil
MergeRateCeil(prMerged, prTotal) ==
  IF prTotal > 0 THEN (prMerged * 100 + prTotal - 1) \div prTotal ELSE 0

\* MergeRate that takes an empty list as fully merged
MergeRateEmptyFull(prMerged, prTotal) ==
  IF prTotal > 0 THEN MathRound(prMerged * 100, prTotal) ELSE 100

\* line 51
MergeRate(prMerged, prTotal) ==
  IF prTotal > 0 THEN MathRound(prMerged * 100, prTotal) ELSE 0

\* AvgMergeTimeHours with 0 in place of null
AvgMergeTimeHoursZero(totalMergeTimeMs, mergedWithTimestamps) ==
  IF mergedWithTimestamps > 0
  THEN Num(MathRound(totalMergeTimeMs, mergedWithTimestamps * 360000))
  ELSE Num(0)

\* Math.floor in the place of Math.round
AvgMergeTimeHoursFloor(totalMergeTimeMs, mergedWithTimestamps) ==
  IF mergedWithTimestamps > 0
  THEN Num(totalMergeTimeMs \div (mergedWithTimestamps * 360000))
  ELSE Null

\* lines 54-57: Math.round(ms / n / 3600000 * 10) / 10, in tenths of an hour
AvgMergeTimeHours(totalMergeTimeMs, mergedWithTimestamps) ==
  IF mergedWithTimestamps > 0
  THEN Num(MathRound(totalMergeTimeMs, mergedWithTimestamps * 360000))
  ELSE Null

\* RevAccInit with the counters kept outside the function
RevAccInitShared ==
  IF sprintResult = Pending
  THEN [approved |-> 0, changesRequested |-> 0, commented |-> 0]
  ELSE [approved |-> sprintResult.reviews.approved,
        changesRequested |-> sprintResult.reviews.changesRequested,
        commented |-> sprintResult.reviews.commented]

\* lines 60-62
RevAccInit == [approved |-> 0, changesRequested |-> 0, commented |-> 0]

\* RevStep that drops a disposition it does not know
RevStepKnownOnly(acc, rev) ==
  IF rev.state = "APPROVED" THEN [acc EXCEPT !.approved = @ + 1]
  ELSE IF rev.state = "CHANGES_REQUESTED" THEN [acc EXCEPT !.changesRequested = @ + 1]
  ELSE IF rev.state = "COMMENTED" THEN [acc EXCEPT !.commented = @ + 1]
  ELSE acc

\* lines 65-67: one iteration of the loop over github.reviews
RevStep(acc, rev) ==
  IF rev.state = "APPROVED" THEN [acc EXCEPT !.approved = @ + 1]
  ELSE IF rev.state = "CHANGES_REQUESTED" THEN [acc EXCEPT !.changesRequested = @ + 1]
  ELSE [acc EXCEPT !.commented = @ + 1]

RECURSIVE RevLoop(_, _)
RevLoop(acc, revs) ==
  IF revs = <<>> THEN acc ELSE RevLoop(RevStep(acc, Head(revs)), Tail(revs))

\* JiraSupplied that asks for more than one ticket
JiraSuppliedSeveral(j) == j # Undefined /\ Len(j.issues) > 1

\* line 90: jira && jira.issues.length > 0
JiraSupplied(j) == j # Undefined /\ Len(j.issues) > 0

\* IsDoneStatus without toLowerCase()
IsDoneStatusCaseSensitive(status) == status \in DONE_STATUSES

\* line 99
IsDoneStatus(status) == toLowerCase(status) \in DONE_STATUSES

\* a value held by byType or byPriority: a number, or the string that +
\* makes of a value that is not one: String(Object.prototype[of]) followed
\* by `ones` characters '1'
Count(n) == [type |-> "number", value |-> n]
Text(of, ones) == [type |-> "string", of |-> of, ones |-> ones]

\* the property names every object literal {} inherits from Object.prototype
ObjectPrototypeKeys ==
  {"constructor", "toString", "toLocaleString", "valueOf", "hasOwnProperty",
   "isPrototypeOf", "propertyIsEnumerable", "__proto__", "__defineGetter__",
   "__defineSetter__", "__lookupGetter__", "__lookupSetter__"}

\* Object.prototype[key]: a function, or Object.prototype itself for __proto__
Inherited(key) == [type |-> "object", inherited |-> key]

\* rec[key] read on an object literal whose own properties are rec
GetProperty(rec, key) ==
  IF key \in DOMAIN rec THEN rec[key]
  ELSE IF key \in ObjectPrototypeKeys THEN Inherited(key)
  ELSE Undefined

\* value ?? 0
NullishOrZero(v) == IF v = Undefined \/ v = Null THEN Count(0) ELSE v

\* value + 1: addition on a number, concatenation on anything else
PlusOne(v) ==
  CASE v.type = "number" -> Count(v.value + 1)
    [] v.type = "string" -> Text(v.of, v.ones + 1)
    [] v.type = "object" -> Text(v.inherited, 1)

\* rec[key] = value: the __proto__ setter ignores a value that is neither an
\* object nor null; any other key becomes an own property
SetProperty(rec, key, value) ==
  IF key = "__proto__" THEN rec
  ELSE [k \in DOMAIN rec \cup {key} |-> IF k = key THEN value ELSE rec[k]]

\* lines 96-97: rec[key] = (rec[key] ?? 0) + 1, rec being a {} literal
Bump(rec, key) ==
  SetProperty(rec, key, PlusOne(NullishOrZero(GetProperty(rec, key))))

\* lines 91-93
IssueAccInit == [byType |-> <<>>, byPriority |-> <<>>, completed |-> 0]

\* lines 96-101: one iteration of the loop over jira.issues
IssueStep(acc, issue) ==
  [byType |-> Bump(acc.byType, issue.issueType),
   byPriority |-> Bump(acc.byPriority, issue.priority),
   completed |-> IF IsDoneStatus(issue.status) THEN acc.completed + 1 ELSE acc.completed]

RECURSIVE IssueLoop(_, _)
IssueLoop(acc, issues) ==
  IF issues = <<>> THEN acc ELSE IssueLoop(IssueStep(acc, Head(issues)), Tail(issues))

\* CompletionRate with Math.floor
CompletionRateFloor(done, totalIssues) == (done * 100) \div totalIssues

\* line 108
CompletionRate(done, totalIssues) == MathRound(done * 100, totalIssues)

\* lines 104-111
SprintJira(j) ==
  LET acc == IssueLoop(IssueAccInit, j.issues)
      totalIssues == Len(j.issues)
  IN [totalIssues |-> totalIssues,
      completed |-> acc.completed,
      completionRate |-> CompletionRate(acc.completed, totalIssues),
      byType |-> acc.byType,
      byPriority |-> acc.byPriority]

\* lines 17-115
analyzeSprintActivity(g, j) ==
  LET pa == PrLoop(PrAccInit, g.pullRequests)
      prTotal == Len(g.pullRequests)
      ra == RevLoop(RevAccInit, g.reviews)
      metrics ==
        [totalCommits |-> Len(g.commits),
         pullRequests |->
           [total |-> prTotal,
            merged |-> pa.prMerged,
            open |-> pa.prOpen,
            closed |-> pa.prClosed,
            mergeRate |-> MergeRate(pa.prMerged, prTotal)],
         additions |-> pa.totalAdditions,
         deletions |-> pa.totalDeletions,
         reviews |->
           [total |-> Len(g.reviews),
            approved |-> ra.approved,
            changesRequested |-> ra.changesRequested,
            commented |-> ra.commented],
         avgMergeTimeHours |->
           AvgMergeTimeHours(pa.totalMergeTimeMs, pa.mergedWithTimestamps)]
  IN IF JiraSupplied(j)
     THEN [f \in DOMAIN metrics \cup {"jira"} |->
             IF f = "jira" THEN SprintJira(j) ELSE metrics[f]]
     ELSE metrics

(***************************************************************************)
(* metrics-calculator.ts (calculateWeeklyMetrics), from section 4.4 of the *)
(* specification and metrics-calculator.test.ts                            *)
(***************************************************************************)
RepoEntry(repo) ==
  [repo |-> repo, commits |-> 0, pullRequests |-> 0, merged |-> 0,
   additions |-> 0, deletions |-> 0, reviews |-> 0]

\* position of the entry of a repository in the insertion-ordered mapping, 0 if none
RepoIndex(repos, repo) ==
  IF \E i \in 1..Len(repos) : repos[i].repo = repo
  THEN CHOOSE i \in 1..Len(repos) : repos[i].repo = repo
  ELSE 0

\* the entry of a repository is created when the repository is first met
RepoGetOrCreate(repos, repo) ==
  IF RepoIndex(repos, repo) = 0 THEN Append(repos, RepoEntry(repo)) ELSE repos

WeeklyAccInit ==
  [open |-> 0, merged |-> 0, closed |-> 0, additions |-> 0, deletions |-> 0,
   approved |-> 0, changesRequested |-> 0, commented |-> 0, repos |-> <<>>]

WeeklyCommitStep(acc, c) ==
  LET rs == RepoGetOrCreate(acc.repos, c.repo)
      k == RepoIndex(rs, c.repo)
  IN [acc EXCEPT !.repos = [rs EXCEPT ![k].commits = @ + 1]]

\* WeeklyPrStep that leaves the line counts out of the repository entry
WeeklyPrStepGlobalLines(acc, pr) ==
  LET rs == RepoGetOrCreate(acc.repos, pr.repo)
      k == RepoIndex(rs, pr.repo)
      isMerged == pr.state = "merged"
      bucket == IF isMerged THEN "merged" ELSE IF pr.state = "open" THEN "open" ELSE "closed"
  IN [acc EXCEPT
        ![bucket] = @ + 1,
        !.additions = @ + OrZero(pr, "additions"),
        !.deletions = @ + OrZero(pr, "deletions"),
        !.repos = [rs EXCEPT ![k].pullRequests = @ + 1,
                             ![k].merged = @ + (IF isMerged THEN 1 ELSE 0)]]

WeeklyPrStep(acc, pr) ==
  LET rs == RepoGetOrCreate(acc.repos, pr.repo)
      k == RepoIndex(rs, pr.repo)
      adds == OrZero(pr, "additions")
      dels == OrZero(pr, "deletions")
      isMerged == pr.state = "merged"
      bucket == IF isMerged THEN "merged" ELSE IF pr.state = "open" THEN "open" ELSE "closed"
  IN [acc EXCEPT
        ![bucket] = @ + 1,
        !.additions = @ + adds,
        !.deletions = @ + dels,
        !.repos = [rs EXCEPT ![k].pullRequests = @ + 1,
                             ![k].merged = @ + (IF isMerged THEN 1 ELSE 0),
                             ![k].additions = @ + adds,
                             ![k].deletions = @ + dels]]

\* WeeklyRevStep that counts a review only in an entry that exists already
WeeklyRevStepNoCreate(acc, rev) ==
  LET k == RepoIndex(acc.repos, rev.repo)
      bucket == IF rev.state = "APPROVED" THEN "approved"
                ELSE IF rev.state = "CHANGES_REQUESTED" THEN "changesRequested"
                ELSE "commented"
  IN [acc EXCEPT ![bucket] = @ + 1,
                 !.repos = IF k = 0 THEN @ ELSE [@ EXCEPT ![k].reviews = @ + 1]]

WeeklyRevStep(acc, rev) ==
  LET rs == RepoGetOrCreate(acc.repos, rev.repo)
      k == RepoIndex(rs, rev.repo)
      bucket == IF rev.state = "APPROVED" THEN "approved"
                ELSE IF rev.state = "CHANGES_REQUESTED" THEN "changesRequested"
                ELSE "commented"
  IN [acc EXCEPT ![bucket] = @ + 1,
                 !.repos = [rs EXCEPT ![k].reviews = @ + 1]]

WeeklyStep(acc, kind, item) ==
  CASE kind = "commit" -> WeeklyCommitStep(acc, item)
    [] kind = "pr" -> WeeklyPrStep(acc, item)
    [] kind = "review" -> WeeklyRevStep(acc, item)

\* the items lo..hi of one activity kind, in the order of the list
RECURSIVE WeeklyLoopFromTo(_, _, _, _, _)
WeeklyLoopFromTo(acc, kind, items, lo, hi) ==
  IF lo > hi THEN acc
  ELSE IF lo = hi THEN WeeklyStep(acc, kind, items[lo])
  ELSE LET mid == (lo + hi) \div 2
           first == WeeklyLoopFromTo(acc, kind, items, lo, mid)
       IN IF first = acc
          THEN WeeklyLoopFromTo(acc, kind, items, mid + 1, hi)
          ELSE WeeklyLoopFromTo(first, kind, items, mid + 1, hi)

WeeklyLoop(acc, kind, items) == WeeklyLoopFromTo(acc, kind, items, 1, Len(items))

RepoActivity(e) == e.commits + e.pullRequests + e.reviews

\* InsertByActivity that goes in front of the entries of the same activity
RECURSIVE InsertByActivityUnstable(_, _)
InsertByActivityUnstable(sorted, e) ==
  IF sorted = <<>> THEN <<e>>
  ELSE IF RepoActivity(Head(sorted)) > RepoActivity(e)
       THEN <<Head(sorted)>> \o InsertByActivityUnstable(Tail(sorted), e)
       ELSE <<e>> \o sorted

\* insertion behind every entry that has at least the same activity: stable, descending
RECURSIVE InsertByActivity(_, _)
InsertByActivity(sorted, e) ==
  IF sorted = <<>> THEN <<e>>
  ELSE IF RepoActivity(Head(sorted)) >= RepoActivity(e)
       THEN <<Head(sorted)>> \o InsertByActivity(Tail(sorted), e)
       ELSE <<e>> \o sorted

RECURSIVE SortByActivity(_, _)
SortByActivity(sorted, rest) ==
  IF rest = <<>> THEN sorted
  ELSE SortByActivity(InsertByActivity(sorted, Head(rest)), Tail(rest))

\* one more ticket under a verbatim key of an insertion-keyed mapping
WeeklyCount(counts, key) ==
  IF key \in DOMAIN counts
  THEN [counts EXCEPT ![key] = @ + 1]
  ELSE counts @@ (key :> 1)

RECURSIVE WeeklyIssueLoop(_, _)
WeeklyIssueLoop(acc, issues) ==
  IF issues = <<>> THEN acc
  ELSE WeeklyIssueLoop(
         [byStatus |-> WeeklyCount(acc.byStatus, Head(issues).status),
          byPriority |-> WeeklyCount(acc.byPriority, Head(issues).priority),
          byType |-> WeeklyCount(acc.byType, Head(issues).issueType)],
         Tail(issues))

\* WeeklyJira that groups the statuses without their letter case
WeeklyJiraLowered(j) ==
  LET lowered == [i \in DOMAIN j.issues |->
                    [j.issues[i] EXCEPT !.status = toLowerCase(@)]]
      acc == WeeklyIssueLoop([byStatus |-> <<>>, byPriority |-> <<>>, byType |-> <<>>],
                             lowered)
  IN [totalIssues |-> Len(j.issues),
      byStatus |-> acc.byStatus,
      byPriority |-> acc.byPriority,
      byType |-> acc.byType]

WeeklyJira(j) ==
  LET acc == WeeklyIssueLoop([byStatus |-> <<>>, byPriority |-> <<>>, byType |-> <<>>],
                             j.issues)
  IN [totalIssues |-> Len(j.issues),
      byStatus |-> acc.byStatus,
      byPriority |-> acc.byPriority,
      byType |-> acc.byType]

calculateWeeklyMetrics(g, j) ==
  LET a1 == WeeklyLoop(WeeklyAccInit, "commit", g.commits)
      a2 == WeeklyLoop(a1, "pr", g.pullRequests)
      acc == WeeklyLoop(a2, "review", g.reviews)
      metrics ==
        [totalCommits |-> Len(g.commits),
         pullRequests |->
           [total |-> Len(g.pullRequests),
            open |-> acc.open,
            merged |-> acc.merged,
            closed |-> acc.closed],
         additions |-> acc.additions,
         deletions |-> acc.deletions,
         reviews |->
           [total |-> Len(g.reviews),
            approved |-> acc.approved,
            changesRequested |-> acc.changesRequested,
            commented |-> acc.commented],
         repoBreakdown |-> SortByActivity(<<>>, acc.repos)]
  IN IF j # Undefined /\ Len(j.issues) > 0
     THEN [f \in DOMAIN metrics \cup {"jira"} |->
             IF f = "jira" THEN WeeklyJira(j) ELSE metrics[f]]
     ELSE metrics

(***************************************************************************)
(* Inputs of the reducers                                                  *)
(***************************************************************************)
SeqsUpTo(S, n) == UNION {[1..k -> S] : k \in 0..n}

T0 == "2026-01-20T00:00:00Z"
T1min == "2026-01-20T00:01:00Z"
T3min == "2026-01-20T00:03:00Z"
T24h == "2026-01-21T00:00:00Z"
T36h == "2026-01-21T12:00:00Z"

Repos == {"org/a", "org/b"}

\* pull requests that differ in their state only
StatePRs ==
  {[state |-> s, createdAt |-> T0, mergedAt |-> T24h, repo |-> "org/a"] :
     s \in {"merged", "open", "closed", "Merged", ""}}

\* merged pull requests over the shapes of their two timestamps, and an open
\* one without timestamps
TimedPRs ==
  {[state |-> "merged", createdAt |-> c, mergedAt |-> m, repo |-> "org/a"] :
     <<c, m>> \in {<<T0, T24h>>, <<T0, T36h>>, <<T0, T1min>>, <<T0, T3min>>,
                  <<T0, T0>>,
                  <<T24h, T0>>, <<"", T24h>>, <<T0, "">>,
                  <<"not-a-date", T24h>>, <<T0, "not-a-date">>}}
  \cup {[state |-> "merged", createdAt |-> T0, repo |-> "org/a"],
        [state |-> "open", createdAt |-> "", repo |-> "org/a"]}

\* pull requests with and without line counts, in either repository
MixedPRs ==
  UNION {{[state |-> "merged", createdAt |-> T0, mergedAt |-> T24h, repo |-> r,
           additions |-> 5, deletions |-> 2],
          [state |-> "merged", createdAt |-> "", mergedAt |-> "", repo |-> r,
           additions |-> 3, deletions |-> 1],
          [state |-> "open", createdAt |-> "", repo |-> r],
          [state |-> "closed", createdAt |-> T0, repo |-> r, additions |-> 1]} :
         r \in Repos}

ReviewStates == {"APPROVED", "CHANGES_REQUESTED", "COMMENTED", "PENDING", "", "approved"}

StateReviews == {[state |-> s, repo |-> "org/a"] : s \in ReviewStates}

MixedReviews ==
  {[state |-> s, repo |-> r] : s \in {"APPROVED", "CHANGES_REQUESTED", "COMMENTED"},
                               r \in Repos}

Commits == {[repo |-> r] : r \in Repos}

Done == <<"D","o","n","e">>
InProgress == <<"I","n"," ","P","r","o","g","r","e","s","s">>
Closed == <<"C","l","o","s","e","d">>
Resolved == <<"R","e","s","o","l","v","e","d">>
COMPLETE == <<"C","O","M","P","L","E","T","E">>
completed == <<"c","o","m","p","l","e","t","e","d">>
done == <<"d","o","n","e">>
DoneSpace == <<"D","o","n","e"," ">>
NotDone == <<"N","o","t"," ","d","o","n","e">>

Statuses == {Done, done, InProgress, Closed, Resolved, COMPLETE, completed, DoneSpace, NotDone}

StatusIssues == {[status |-> s, issueType |-> "Bug", priority |-> "High"] : s \in Statuses}

\* tickets whose type or priority is also a property name of Object.prototype,
\* or looks like a number
KeyedIssues ==
  {[status |-> Done, issueType |-> "Bug", priority |-> "High"],
   [status |-> Done, issueType |-> "constructor", priority |-> "High"],
   [status |-> InProgress, issueType |-> "1", priority |-> "toString"],
   [status |-> InProgress, issueType |-> "__proto__", priority |-> "1"]}

MixedIssues ==
  {[status |-> Done, issueType |-> "Bug", priority |-> "High"],
   [status |-> InProgress, issueType |-> "Story", priority |-> "High"],
   [status |-> Done, issueType |-> "Story", priority |-> "Low"]}

GitHub(commits, prs, reviews) ==
  [username |-> "testuser",
   commits |-> commits,
   pullRequests |-> prs,
   reviews |-> reviews,
   timeRange |-> [from |-> "2026-01-20T00:00:00Z", to |-> "2026-02-03T00:00:00Z"]]

Jira(issues) == [issues |-> issues]

\* the jira arguments with n tickets: omitted or empty when n = 0
JiraOfLen(S, n) ==
  IF n = 0 THEN {Undefined, Jira(<<>>)} ELSE {Jira(is) : is \in [1..n -> S]}

\* the inputs that vary one collection, and those that mix a few records of
\* every kind
PRInputs(g, j) ==
  /\ \E prs \in SeqsUpTo(StatePRs, MaxPRs) \cup SeqsUpTo(TimedPRs, MaxPRs - 1) :
       g = GitHub(<<>>, prs, <<>>)
  /\ j = Undefined

ReviewInputs(g, j) ==
  /\ \E revs \in SeqsUpTo(StateReviews, MaxReviews) : g = GitHub(<<>>, <<>>, revs)
  /\ j = Undefined

CommitInputs(g, j) ==
  /\ \E cs \in SeqsUpTo(Commits, MaxCommits) : g = GitHub(cs, <<>>, <<>>)
  /\ j = Undefined

JiraInputs(g, j) ==
  /\ g = GitHub(<<>>, <<>>, <<>>)
  /\ \E n \in 0..MaxIssues : j \in JiraOfLen(StatusIssues, n)

\* a long list of pull requests: the first k merged, the others open
ManyPRs(n, k) ==
  [i \in 1..n |->
     [state |-> IF i <= k THEN "merged" ELSE "open", createdAt |-> "",
      repo |-> "org/a"]]

\* long lists in which all, none, or all but one or two pull requests are
\* merged
ManyInputs(g, j) ==
  /\ \E n \in (MaxManyPRs - 1)..MaxManyPRs :
       \E k \in {0, 1, 2, n - 2, n - 1, n} : g = GitHub(<<>>, ManyPRs(n, k), <<>>)
  /\ j = Undefined

KeyedInputs(g, j) ==
  /\ g = GitHub(<<>>, <<>>, <<>>)
  /\ \E n \in 1..MaxMixed : j \in JiraOfLen(KeyedIssues, n)

MixedInputs(g, j) ==
  \E nc \in 0..MaxMixed : \E np \in 0..(MaxMixed - nc) : \E nr \in 0..(MaxMixed - nc - np) :
    /\ \E cs \in [1..nc -> Commits] : \E prs \in [1..np -> MixedPRs] :
         \E revs \in [1..nr -> MixedReviews] : g = GitHub(cs, prs, revs)
    /\ \E ni \in 0..(MaxMixed - nc - np - nr) : j \in JiraOfLen(MixedIssues, ni)

Inputs(g, j) ==
  \/ PRInputs(g, j)
  \/ ReviewInputs(g, j)
  \/ CommitInputs(g, j)
  \/ JiraInputs(g, j)
  \/ MixedInputs(g, j)
  \/ KeyedInputs(g, j)
  \/ ManyInputs(g, j)

(***************************************************************************)
(* The callers                                                             *)
(***************************************************************************)
\* no generate* call is in progress
Idle == [pc |-> "idle"]

\* process.env without ANTHROPIC_API_KEY
NoKey == <<>>

Init ==
  /\ Inputs(github, jira)
  /\ sprintResult = Pending
  /\ weeklyResult = Pending
  /\ calls = <<>>
  /\ env = NoKey
  /\ gen = Idle

\* AnalyzeSprintActivity that writes the defaulted line counts back into the
\* pull requests of its argument
AnalyzeSprintActivityInPlace ==
  /\ sprintResult' = analyzeSprintActivity(github, jira)
  /\ github' = [github EXCEPT !.pullRequests =
                  [i \in DOMAIN @ |->
                     [f \in DOMAIN @[i] \cup {"additions", "deletions"} |->
                        IF f \in DOMAIN @[i] THEN @[i][f] ELSE 0]]]
  /\ UNCHANGED <<jira, weeklyResult, calls, env, gen>>

\* const m = analyzeSprintActivity(github, jira)
AnalyzeSprintActivity ==
  /\ sprintResult' = analyzeSprintActivity(github, jira)
  /\ UNCHANGED <<github, jira, weeklyResult, calls, env, gen>>

\* const m = calculateWeeklyMetrics(github, jira)
CalculateWeeklyMetrics ==
  /\ weeklyResult' = calculateWeeklyMetrics(github, jira)
  /\ UNCHANGED <<github, jira, sprintResult, calls, env, gen>>

Next == AnalyzeSprintActivity \/ CalculateWeeklyMetrics

Spec == Init /\ [][Next]_vars

(***************************************************************************)
(* Several calls, by callers that pass different arguments                 *)
(***************************************************************************)
CallInputs ==
  { [github |-> GitHub(<<>>, <<>>, <<>>), jira |-> Undefined],
    [github |->
       GitHub(<<[repo |-> "org/a"]>>,
              <<[state |-> "merged", createdAt |-> T0, mergedAt |-> T24h,
                 repo |-> "org/a", additions |-> 5, deletions |-> 2]>>,
              <<[state |-> "APPROVED", repo |-> "org/a"]>>),
     jira |-> Jira(<<[status |-> Done, issueType |-> "Bug", priority |-> "High"]>>)],
    [github |->
       GitHub(<<>>,
              <<[state |-> "open", createdAt |-> "", repo |-> "org/b"],
                [state |-> "merged", createdAt |-> "", mergedAt |-> "",
                 repo |-> "org/a", additions |-> 3, deletions |-> 1]>>,
              <<[state |-> "COMMENTED", repo |-> "org/b"]>>),
     jira |-> Jira(<<>>)] }

InitCalls ==
  /\ \E in \in CallInputs : github = in.github /\ jira = in.jira
  /\ sprintResult = Pending
  /\ weeklyResult = Pending
  /\ calls = <<>>
  /\ env = NoKey
  /\ gen = Idle

Call(fn, result) == [fn |-> fn, github |-> github, jira |-> jira, result |-> result]

\* a caller invokes analyzeSprintActivity on the current arguments
CallAnalyzeSprintActivity ==
  /\ Len(calls) < MaxCalls
  /\ sprintResult' = analyzeSprintActivity(github, jira)
  /\ calls' = Append(calls, Call("sprint", sprintResult'))
  /\ UNCHANGED <<github, jira, weeklyResult, env, gen>>

\* a caller invokes calculateWeeklyMetrics on the current arguments
CallCalculateWeeklyMetrics ==
  /\ Len(calls) < MaxCalls
  /\ weeklyResult' = calculateWeeklyMetrics(github, jira)
  /\ calls' = Append(calls, Call("weekly", weeklyResult'))
  /\ UNCHANGED <<github, jira, sprintResult, env, gen>>

\* the next caller comes with other arguments
NextCaller ==
  /\ \E in \in CallInputs :
       /\ in.github # github \/ in.jira # jira
       /\ github' = in.github
       /\ jira' = in.jira
  /\ UNCHANGED <<sprintResult, weeklyResult, calls, env, gen>>

NextCalls == CallAnalyzeSprintActivity \/ CallCalculateWeeklyMetrics \/ NextCaller

SpecCalls == InitCalls /\ [][NextCalls]_vars

(***************************************************************************)
(* report-generator.ts: generateDailyReport, generateWeeklyReport and      *)
(* generateRetrospective.  A report is kept by what decides its content:   *)
(* who wrote it, for which function, and which of its optional parts it    *)
(* has.  A call runs up to its await in one step and, when it awaits the   *)
(* Anthropic API, from the settlement of that call to its return in a      *)
(* second one; process.env can be written by other code in between.        *)
(***************************************************************************)
ApiKeyName == "ANTHROPIC_API_KEY"

\* isAIConfigured that keeps the answer of its first call
isAIConfiguredCached ==
  IF calls # <<>> THEN calls[1].result ELSE TruthyStr(env, ApiKeyName)

\* isAIConfigured that only asks whether the variable is defined
isAIConfiguredDefined == Has(env, ApiKeyName)

\* Boolean(process.env['ANTHROPIC_API_KEY'])
isAIConfigured == TruthyStr(env, ApiKeyName)

\* a Jira section for every ticket collection, empty ones included
HasIssuesDefined(j) == j # Undefined

\* jira && jira.issues.length > 0
HasIssues(j) == j # Undefined /\ Len(j.issues) > 0

\* the lines '- key: summary [status]' of a fallback report
IssueLines(j) == [i \in DOMAIN j.issues |-> j.issues[i].status]

\* the trailing line '_Set ANTHROPIC_API_KEY for AI-powered ..._'
HintPart == IF ~isAIConfigured THEN {"Hint"} ELSE {}

buildFallbackReport(g, j) ==
  [kind |-> "fallback", fn |-> "daily",
   parts |-> {"Commits", "PullRequests", "Reviews"}
               \cup (IF HasIssues(j) THEN {"JiraIssues"} ELSE {})
               \cup HintPart,
   issues |-> IF HasIssues(j) THEN IssueLines(j) ELSE <<>>]

buildWeeklyFallbackReport(g, j, metrics) ==
  [kind |-> "fallback", fn |-> "weekly",
   parts |-> {"Metrics", "Commits", "PullRequests", "Reviews"}
               \cup (IF Len(metrics.repoBreakdown) > 0 THEN {"RepositoryBreakdown"} ELSE {})
               \cup (IF HasIssues(j) /\ Has(metrics, "jira") THEN {"JiraIssues"} ELSE {})
               \cup HintPart,
   issues |-> IF HasIssues(j) /\ Has(metrics, "jira") THEN IssueLines(j) ELSE <<>>]

buildRetroFallbackReport(g, j, metrics) ==
  [kind |-> "fallback", fn |-> "retro",
   parts |-> {"SprintMetrics", "Commits", "PullRequests", "Reviews"}
               \cup (IF metrics.avgMergeTimeHours # Null THEN {"AvgMergeTime"} ELSE {})
               \cup (IF Has(metrics, "jira") THEN {"JiraCompletion"} ELSE {})
               \cup (IF Has(metrics, "jira") /\ HasIssues(j) THEN {"JiraIssues"} ELSE {})
               \cup HintPart,
   issues |-> IF Has(metrics, "jira") /\ HasIssues(j) THEN IssueLines(j) ELSE <<>>]

\* textBlock.text of the response
AIReport(fn) == [kind |-> "ai", fn |-> fn]

\* the call has no metrics object (generateDailyReport)
NoMetrics == [none |-> TRUE]

Fallback(fn, metrics) ==
  CASE fn = "daily" -> buildFallbackReport(github, jira)
    [] fn = "weekly" -> buildWeeklyFallbackReport(github, jira, metrics)
    [] fn = "retro" -> buildRetroFallbackReport(github, jira, metrics)

\* the generate* function did not reach its try block
NotCalled == "notCalled"

\* a generate* function from its call to its return or to its await;
\* envAtCall remembers process.env as it was at the call
GenerateStart(fn, metrics, reducerCalls) ==
  /\ gen = Idle
  /\ gen' = IF ~isAIConfigured
            THEN [pc |-> "done", fn |-> fn, envAtCall |-> env, metrics |-> metrics,
                  reducerCalls |-> reducerCalls, aiCalls |-> 0,
                  outcome |-> NotCalled, settled |-> "resolved",
                  report |-> Fallback(fn, metrics)]
            ELSE [pc |-> "awaiting", fn |-> fn, envAtCall |-> env, metrics |-> metrics,
                  reducerCalls |-> reducerCalls, aiCalls |-> 1]
  /\ UNCHANGED <<github, jira, sprintResult, weeklyResult, calls, env>>

generateDailyReport == GenerateStart("daily", NoMetrics, 0)

generateWeeklyReport == GenerateStart("weekly", calculateWeeklyMetrics(github, jira), 1)

generateRetrospective == GenerateStart("retro", analyzeSprintActivity(github, jira), 1)

\* anthropic.messages.create settles: with a text block, with a response
\* that has none (generate*WithAI throws), or with a rejection
AIOutcomes == {"text", "noText", "rejected"}

\* a promise that rejected carries no report
RejectedPromise == [settled |-> "rejected"]

ResolvedWith(report) == [settled |-> "resolved", report |-> report]

\* a try block that only covers the request: the throw of 'No text content
\* in AI response' leaves the generate* function
SettleRequestOnly(fn, metrics, outcome) ==
  CASE outcome = "text" -> ResolvedWith(AIReport(fn))
    [] outcome = "noText" -> RejectedPromise
    [] outcome = "rejected" -> ResolvedWith(Fallback(fn, metrics))

\* a catch that handles the missing text block and rethrows what the
\* request rejected with
SettleRethrow(fn, metrics, outcome) ==
  CASE outcome = "text" -> ResolvedWith(AIReport(fn))
    [] outcome = "noText" -> ResolvedWith(Fallback(fn, metrics))
    [] outcome = "rejected" -> RejectedPromise

\* try { return await generate*WithAI(...) } catch (error) { return
\* build*FallbackReport(...) }, from the settlement of the request on
Settle(fn, metrics, outcome) ==
  CASE outcome = "text" -> ResolvedWith(AIReport(fn))
    [] outcome = "noText" -> ResolvedWith(Fallback(fn, metrics))
    [] outcome = "rejected" -> ResolvedWith(Fallback(fn, metrics))

\* a generate* function that sends the request a second time when the
\* first one failed
AICallSettlesRetryOnce ==
  /\ gen.pc = "awaiting"
  /\ \E outcome \in AIOutcomes :
       IF outcome # "text" /\ gen.aiCalls < 2
       THEN gen' = [gen EXCEPT !.aiCalls = @ + 1]
       ELSE LET end == Settle(gen.fn, gen.metrics, outcome)
            IN gen' = [f \in DOMAIN gen \cup {"outcome"} \cup DOMAIN end |->
                         CASE f = "pc" -> "done"
                           [] f = "outcome" -> outcome
                           [] f \in DOMAIN end -> end[f]
                           [] OTHER -> gen[f]]
  /\ UNCHANGED <<github, jira, sprintResult, weeklyResult, calls, env>>

AICallSettles ==
  /\ gen.pc = "awaiting"
  /\ \E outcome \in AIOutcomes :
       LET end == Settle(gen.fn, gen.metrics, outcome)
       IN gen' = [f \in DOMAIN gen \cup {"outcome"} \cup DOMAIN end |->
                    CASE f = "pc" -> "done"
                      [] f = "outcome" -> outcome
                      [] f \in DOMAIN end -> end[f]
                      [] OTHER -> gen[f]]
  /\ UNCHANGED <<github, jira, sprintResult, weeklyResult, calls, env>>

\* the caller has the report
ReportReturned ==
  /\ gen.pc = "done"
  /\ gen' = Idle
  /\ UNCHANGED <<github, jira, sprintResult, weeklyResult, calls, env>>

\* process.env['ANTHROPIC_API_KEY'] = value, by other code
SetApiKey ==
  /\ \E value \in {"", "sk-ant-test"} :
       env' = [k \in DOMAIN env \cup {ApiKeyName} |-> IF k = ApiKeyName THEN value ELSE env[k]]
  /\ env' # env
  /\ UNCHANGED <<github, jira, sprintResult, weeklyResult, calls, gen>>

\* delete process.env['ANTHROPIC_API_KEY'], by other code
DeleteApiKey ==
  /\ Has(env, ApiKeyName)
  /\ env' = [k \in DOMAIN env \ {ApiKeyName} |-> env[k]]
  /\ UNCHANGED <<github, jira, sprintResult, weeklyResult, calls, gen>>

\* other code asks isAIConfigured(); env is process.env as the call saw it
CallIsAIConfigured ==
  /\ Len(calls) < MaxCalls
  /\ calls' = Append(calls, [fn |-> "isAIConfigured", env |-> env,
                              result |-> isAIConfigured])
  /\ UNCHANGED <<github, jira, sprintResult, weeklyResult, env, gen>>

InitReport ==
  /\ \E in \in CallInputs : github = in.github /\ jira = in.jira
  /\ sprintResult = Pending
  /\ weeklyResult = Pending
  /\ calls = <<>>
  /\ env = NoKey
  /\ gen = Idle

NextReport ==
  \/ generateDailyReport
  \/ generateWeeklyReport
  \/ generateRetrospective
  \/ AICallSettles
  \/ ReportReturned
  \/ SetApiKey
  \/ DeleteApiKey
  \/ CallIsAIConfigured

SpecReport == InitReport /\ [][NextReport]_vars

\* the request sent to the Anthropic API settles in the end, and the
\* continuation of the awaiting generate* function then runs
SpecReportFair == SpecReport /\ WF_vars(AICallSettles)

(***************************************************************************)
(* What the properties are stated with: counts and sums taken directly on  *)
(* the inputs                                                              *)
(***************************************************************************)
SprintCalled == sprintResult # Pending
WeeklyCalled == weeklyResult # Pending

PRs == github.pullRequests
Reviews == github.reviews

CountPRs(states) == Cardinality({i \in DOMAIN PRs : PRs[i].state \in states})
CountReviews(states) == Cardinality({i \in DOMAIN Reviews : Reviews[i].state \in states})

\* r is n / d rounded to the nearest integer, a half going up
IsRounded(r, n, d) == 2 * d * r <= 2 * n + d /\ 2 * n + d < 2 * d * (r + 1)

\* the pull request is merged, has both timestamps, both parse, and the merge
\* comes strictly after the creation
Qualifies(pr) ==
  /\ pr.state = "merged"
  /\ Has(pr, "createdAt") /\ pr.createdAt \in DOMAIN KnownDates
  /\ Has(pr, "mergedAt") /\ pr.mergedAt \in DOMAIN KnownDates
  /\ KnownDates[pr.mergedAt] > KnownDates[pr.createdAt]

Qualifying == {i \in DOMAIN PRs : Qualifies(PRs[i])}

RECURSIVE DurationSum(_)
DurationSum(S) ==
  IF S = {} THEN 0
  ELSE LET i == CHOOSE x \in S : TRUE
       IN KnownDates[PRs[i].mergedAt] - KnownDates[PRs[i].createdAt]
          + DurationSum(S \ {i})

\* the sum of a line count over the pull requests lo..hi that are in S
RECURSIVE LineSumFromTo(_, _, _, _)
LineSumFromTo(field, S, lo, hi) ==
  IF lo > hi THEN 0
  ELSE IF lo = hi
       THEN (IF lo \in S /\ field \in DOMAIN PRs[lo] THEN PRs[lo][field] ELSE 0)
       ELSE LET mid == (lo + hi) \div 2
            IN LineSumFromTo(field, S, lo, mid) + LineSumFromTo(field, S, mid + 1, hi)

LineSum(field, S) == LineSumFromTo(field, S, 1, Len(PRs))

\* avg is the mean duration of the qualifying pull requests in hours, rounded
\* to one decimal, or null when none qualifies
IsMeanOfQualifying(avg) ==
  IF Qualifying = {}
  THEN avg = Null
  ELSE /\ avg # Null
       /\ IsRounded(avg.tenths, DurationSum(Qualifying), Cardinality(Qualifying) * 360000)

\* the statuses of the explored tickets that are a word of the done vocabulary
\* up to letter case, and those that are not
DoneSamples == {Done, done, Closed, Resolved, COMPLETE, completed}
NotDoneSamples == {InProgress, DoneSpace, NotDone}

TicketCount == IF jira = Undefined THEN 0 ELSE Len(jira.issues)

(***************************************************************************)
(* C1: in the record returned by either reducer, pullRequests.total is the *)
(* number of pull requests and equals open + merged + closed, whatever the *)
(* state strings are.                                                      *)
(***************************************************************************)
C1_TotalIsSumOfBuckets ==
  /\ SprintCalled =>
       LET p == sprintResult.pullRequests
       IN p.total = Len(PRs) /\ p.total = p.open + p.merged + p.closed
  /\ WeeklyCalled =>
       LET p == weeklyResult.pullRequests
       IN p.total = Len(PRs) /\ p.total = p.open + p.merged + p.closed

C1_Witness ==
  /\ SprintCalled /\ WeeklyCalled
  /\ Len(PRs) >= 3
  /\ \E i \in DOMAIN PRs : PRs[i].state \notin {"merged", "open", "closed"}
  /\ sprintResult.pullRequests.total = Len(PRs)

C3_NullWithoutQualifying ==
  (SprintCalled /\ Qualifying = {}) => sprintResult.avgMergeTimeHours = Null

C3_Witness ==
  /\ SprintCalled
  /\ Qualifying = {}
  /\ \E i \in DOMAIN PRs :
       PRs[i].state = "merged" /\ Has(PRs[i], "mergedAt") /\ PRs[i].mergedAt = PRs[i].createdAt
  /\ \E i \in DOMAIN PRs :
       PRs[i].state = "merged" /\ PRs[i].createdAt = "not-a-date"
  /\ sprintResult.avgMergeTimeHours = Null

(***************************************************************************)
(* C4: when a pull request qualifies, avgMergeTimeHours is the sum of the  *)
(* durations of exactly the qualifying pull requests divided by their      *)
(* number, in hours, rounded to one decimal; 24h and 36h give 30.          *)
(***************************************************************************)
C4_MeanOfQualifying ==
  (SprintCalled /\ Qualifying # {}) =>
    LET avg == sprintResult.avgMergeTimeHours
    IN /\ avg # Null
       /\ IsRounded(avg.tenths, DurationSum(Qualifying), Cardinality(Qualifying) * 360000)

C4_Witness ==
  /\ SprintCalled
  /\ Len(PRs) = 2
  /\ \A i \in 1..2 : PRs[i].state = "merged" /\ PRs[i].createdAt = T0 /\ Has(PRs[i], "mergedAt")
  /\ PRs[1].mergedAt = T24h
  /\ PRs[2].mergedAt = T36h
  /\ sprintResult.avgMergeTimeHours = Num(300)

(***************************************************************************)
(* C5: a merged pull request whose timestamps are missing, unparseable or  *)
(* not increasing stays out of the merge-latency average, and is still     *)
(* counted in merged, total, mergeRate, additions and deletions; the call  *)
(* returns a record.                                                       *)
(***************************************************************************)
C5_UntimedMergedStillCounted ==
  (SprintCalled /\ \E i \in DOMAIN PRs : PRs[i].state = "merged" /\ ~Qualifies(PRs[i])) =>
    /\ IsMeanOfQualifying(sprintResult.avgMergeTimeHours)
    /\ sprintResult.pullRequests.merged = CountPRs({"merged"})
    /\ sprintResult.pullRequests.total = Len(PRs)
    /\ IsRounded(sprintResult.pullRequests.mergeRate, CountPRs({"merged"}) * 100, Len(PRs))
    /\ sprintResult.additions = LineSum("additions", DOMAIN PRs)
    /\ sprintResult.deletions = LineSum("deletions", DOMAIN PRs)

C5_Witness ==
  /\ SprintCalled
  /\ Qualifying # {}
  /\ \E i \in DOMAIN PRs :
       /\ PRs[i].state = "merged" /\ ~Qualifies(PRs[i])
       /\ Has(PRs[i], "additions") /\ PRs[i].additions > 0
  /\ sprintResult.additions = 8
  /\ sprintResult.deletions = 3
  /\ sprintResult.pullRequests.merged = 2
  /\ sprintResult.avgMergeTimeHours = Num(240)

(***************************************************************************)
(* C6: the record of either reducer has a jira field exactly when a ticket *)
(* argument with at least one ticket was given: none when the argument is  *)
(* omitted, none when its issues list is empty.                            *)
(***************************************************************************)
C6_JiraFieldIffTickets ==
  /\ SprintCalled => (Has(sprintResult, "jira") <=> TicketCount >= 1)
  /\ WeeklyCalled => (Has(weeklyResult, "jira") <=> TicketCount >= 1)

C6_Witness ==
  /\ SprintCalled /\ WeeklyCalled
  /\ jira # Undefined /\ jira.issues = <<>>
  /\ ~Has(sprintResult, "jira") /\ ~Has(weeklyResult, "jira")

C8_CompletedIsExactVocabulary ==
  (SprintCalled /\ Has(sprintResult, "jira")) =>
    /\ \A i \in DOMAIN jira.issues : jira.issues[i].status \in DoneSamples \cup NotDoneSamples
    /\ sprintResult.jira.completed =
         Cardinality({i \in DOMAIN jira.issues : jira.issues[i].status \in DoneSamples})

C8_Witness ==
  /\ SprintCalled /\ Has(sprintResult, "jira")
  /\ \E i \in DOMAIN jira.issues : jira.issues[i].status = DoneSpace
  /\ \E i \in DOMAIN jira.issues : jira.issues[i].status = NotDone
  /\ \E i \in DOMAIN jira.issues : jira.issues[i].status = COMPLETE
  /\ sprintResult.jira.completed = 1

(***************************************************************************)
(* C9: either reducer puts every review in one bucket: 'APPROVED' in       *)
(* approved, 'CHANGES_REQUESTED' in changesRequested, any other string in  *)
(* commented; reviews.total is their sum and the number of reviews.        *)
(***************************************************************************)
ReviewsBucketed(r) ==
  /\ r.approved = CountReviews({"APPROVED"})
  /\ r.changesRequested = CountReviews({"CHANGES_REQUESTED"})
  /\ r.commented = Len(Reviews) - CountReviews({"APPROVED", "CHANGES_REQUESTED"})
  /\ r.total = Len(Reviews)
  /\ r.total = r.approved + r.changesRequested + r.commented

C9_ReviewsInOneBucket ==
  /\ SprintCalled => ReviewsBucketed(sprintResult.reviews)
  /\ WeeklyCalled => ReviewsBucketed(weeklyResult.reviews)

C9_Witness ==
  /\ SprintCalled /\ WeeklyCalled
  /\ \E i \in DOMAIN Reviews : Reviews[i].state = "approved"
  /\ \E i \in DOMAIN Reviews : Reviews[i].state = ""
  /\ \E i \in DOMAIN Reviews : Reviews[i].state = "APPROVED"
  /\ sprintResult.reviews.commented = 2
  /\ weeklyResult.reviews.commented = 2

(***************************************************************************)
(* C10: either reducer classifies a pull request by its literal state:     *)
(* 'merged' counts as merged, 'open' as open, and any other string, also   *)
(* 'Merged' or the empty string, as closed.                                *)
(***************************************************************************)
PRsBucketed(p) ==
  /\ p.merged = CountPRs({"merged"})
  /\ p.open = CountPRs({"open"})
  /\ p.closed = Len(PRs) - CountPRs({"merged", "open"})

C10_LiteralStateOnly ==
  /\ SprintCalled => PRsBucketed(sprintResult.pullRequests)
  /\ WeeklyCalled => PRsBucketed(weeklyResult.pullRequests)

C10_Witness ==
  /\ SprintCalled /\ WeeklyCalled
  /\ \E i \in DOMAIN PRs : PRs[i].state = "Merged"
  /\ \E i \in DOMAIN PRs : PRs[i].state = ""
  /\ \E i \in DOMAIN PRs : PRs[i].state = "closed"
  /\ sprintResult.pullRequests.closed = 3
  /\ sprintResult.pullRequests.merged = 0
  /\ weeklyResult.pullRequests.closed = 3

(***************************************************************************)
(* C11: in the record of either reducer, additions and deletions are the   *)
(* sums over all pull requests, of any state, of the line counts, an       *)
(* absent count being 0.                                                   *)
(***************************************************************************)
C11_LineCountsSummed ==
  /\ SprintCalled =>
       /\ sprintResult.additions = LineSum("additions", DOMAIN PRs)
       /\ sprintResult.deletions = LineSum("deletions", DOMAIN PRs)
  /\ WeeklyCalled =>
       /\ weeklyResult.additions = LineSum("additions", DOMAIN PRs)
       /\ weeklyResult.deletions = LineSum("deletions", DOMAIN PRs)

C11_Witness ==
  /\ SprintCalled /\ WeeklyCalled
  /\ \E i \in DOMAIN PRs : ~Has(PRs[i], "additions") /\ ~Has(PRs[i], "deletions")
  /\ \E i \in DOMAIN PRs : PRs[i].state = "closed" /\ Has(PRs[i], "additions")
                           /\ ~Has(PRs[i], "deletions")
  /\ \E i \in DOMAIN PRs : PRs[i].state = "merged" /\ Has(PRs[i], "additions")
  /\ sprintResult.additions = 6 /\ sprintResult.deletions = 2
  /\ weeklyResult.additions = 6 /\ weeklyResult.deletions = 2

(***************************************************************************)
(* C12: without commits, pull requests, reviews and tickets every counter  *)
(* of either reducer is 0; the sprint reducer gives mergeRate 0 and a null *)
(* avgMergeTimeHours, the weekly reducer an empty repository breakdown.    *)
(***************************************************************************)
EmptyActivity ==
  /\ github.commits = <<>> /\ PRs = <<>> /\ Reviews = <<>>
  /\ TicketCount = 0

ZeroCounters(m) ==
  /\ m.totalCommits = 0
  /\ m.pullRequests.total = 0 /\ m.pullRequests.open = 0
  /\ m.pullRequests.merged = 0 /\ m.pullRequests.closed = 0
  /\ m.additions = 0 /\ m.deletions = 0
  /\ m.reviews.total = 0

C12_EmptyActivityAllZero ==
  EmptyActivity =>
    /\ SprintCalled =>
         /\ ZeroCounters(sprintResult)
         /\ sprintResult.pullRequests.mergeRate = 0
         /\ sprintResult.avgMergeTimeHours = Null
    /\ WeeklyCalled =>
         /\ ZeroCounters(weeklyResult)
         /\ Len(weeklyResult.repoBreakdown) = 0

C12_Witness ==
  /\ EmptyActivity
  /\ SprintCalled /\ WeeklyCalled
  /\ sprintResult.pullRequests.mergeRate = 0
  /\ weeklyResult.repoBreakdown = <<>>

(***************************************************************************)
(* C13: the weekly repoBreakdown is in descending order of commits +       *)
(* pullRequests + reviews, and entries of equal totals keep the order in   *)
(* which their repositories were first met in the input.                   *)
(***************************************************************************)
\* the repositories of the input in the order of the pass: commits, pull
\* requests, reviews
RepoTrace ==
  [i \in DOMAIN github.commits |-> github.commits[i].repo]
    \o [i \in DOMAIN PRs |-> PRs[i].repo]
    \o [i \in DOMAIN Reviews |-> Reviews[i].repo]

FirstMet(repo) == CHOOSE i \in DOMAIN RepoTrace :
                    RepoTrace[i] = repo /\ \A k \in 1..(i - 1) : RepoTrace[k] # repo

EntryTotal(e) == e.commits + e.pullRequests + e.reviews

C13_BreakdownSortedStable ==
  WeeklyCalled =>
    LET rb == weeklyResult.repoBreakdown
    IN \A i, k \in DOMAIN rb :
         i < k =>
           /\ EntryTotal(rb[i]) >= EntryTotal(rb[k])
           /\ EntryTotal(rb[i]) = EntryTotal(rb[k]) => FirstMet(rb[i].repo) < FirstMet(rb[k].repo)

C13_Witness ==
  /\ WeeklyCalled
  /\ Len(github.commits) = 2
  /\ github.commits[1].repo = "org/a" /\ github.commits[2].repo = "org/b"
  /\ Len(PRs) = 1 /\ PRs[1].repo = "org/b"
  /\ Len(weeklyResult.repoBreakdown) = 2
  /\ weeklyResult.repoBreakdown[1].repo = "org/b"
  /\ weeklyResult.repoBreakdown[2].repo = "org/a"

(***************************************************************************)
(* C14: the weekly repoBreakdown has exactly one entry for every           *)
(* repository named by a commit, a pull request or a review, also one      *)
(* named by a review only, and no other entry.                             *)
(***************************************************************************)
C14_OneEntryPerRepository ==
  WeeklyCalled =>
    LET rb == weeklyResult.repoBreakdown
    IN /\ {rb[i].repo : i \in DOMAIN rb} = {RepoTrace[i] : i \in DOMAIN RepoTrace}
       /\ \A i, k \in DOMAIN rb : rb[i].repo = rb[k].repo => i = k

C14_Witness ==
  /\ WeeklyCalled
  /\ \E i \in DOMAIN Reviews : Reviews[i].repo = "org/b"
  /\ \A i \in DOMAIN PRs : PRs[i].repo = "org/a"
  /\ \A i \in DOMAIN github.commits : github.commits[i].repo = "org/a"
  /\ Len(PRs) > 0 /\ Len(github.commits) > 0
  /\ Len(weeklyResult.repoBreakdown) = 2
  /\ \E i \in DOMAIN weeklyResult.repoBreakdown :
       /\ weeklyResult.repoBreakdown[i].repo = "org/b"
       /\ weeklyResult.repoBreakdown[i].reviews = 1

(***************************************************************************)
(* C15: with at least one ticket, the weekly jira field has totalIssues    *)
(* equal to the number of tickets and byStatus, byPriority and byType that *)
(* count, under each verbatim string, the tickets carrying exactly that    *)
(* string ('Done' and 'done' are two keys); it has no completionRate.      *)
(***************************************************************************)
\* counts is the mapping from the values of a ticket field to their numbers
CountsVerbatim(counts, field) ==
  /\ DOMAIN counts = {jira.issues[i][field] : i \in DOMAIN jira.issues}
  /\ \A k \in DOMAIN counts :
       counts[k] = Cardinality({i \in DOMAIN jira.issues : jira.issues[i][field] = k})

C15_WeeklyJiraGroupsVerbatim ==
  (WeeklyCalled /\ TicketCount >= 1) =>
    /\ Has(weeklyResult, "jira")
    /\ weeklyResult.jira.totalIssues = TicketCount
    /\ CountsVerbatim(weeklyResult.jira.byStatus, "status")
    /\ CountsVerbatim(weeklyResult.jira.byPriority, "priority")
    /\ CountsVerbatim(weeklyResult.jira.byType, "issueType")
    /\ ~Has(weeklyResult.jira, "completionRate")

C15_Witness ==
  /\ WeeklyCalled /\ TicketCount = 3
  /\ {jira.issues[i].status : i \in DOMAIN jira.issues} = {Done, done}
  /\ weeklyResult.jira.byStatus[Done] = 2
  /\ weeklyResult.jira.byStatus[done] = 1

C19_ReducersAgree ==
  (SprintCalled /\ WeeklyCalled) =>
    /\ sprintResult.totalCommits = weeklyResult.totalCommits
    /\ \A f \in {"total", "open", "merged", "closed"} :
         sprintResult.pullRequests[f] = weeklyResult.pullRequests[f]
    /\ sprintResult.additions = weeklyResult.additions
    /\ sprintResult.deletions = weeklyResult.deletions
    /\ \A f \in {"total", "approved", "changesRequested", "commented"} :
         sprintResult.reviews[f] = weeklyResult.reviews[f]

C19_Witness ==
  /\ SprintCalled /\ WeeklyCalled
  /\ Len(github.commits) > 0 /\ Len(PRs) > 0 /\ Len(Reviews) > 0
  /\ sprintResult.pullRequests.merged > 0
  /\ sprintResult.additions > 0
  /\ sprintResult.reviews.approved > 0
  /\ weeklyResult.reviews.approved = sprintResult.reviews.approved
  /\ weeklyResult.pullRequests.merged = sprintResult.pullRequests.merged

(***************************************************************************)
(* C16: each reducer is deterministic: two calls with the same bundle and  *)
(* the same tickets return identical records, whatever calls with other    *)
(* arguments came before.                                                  *)
(***************************************************************************)
SameArguments(a, b) == a.fn = b.fn /\ a.github = b.github /\ a.jira = b.jira

CountStates(items, states) == Cardinality({i \in DOMAIN items : items[i].state \in states})

RECURSIVE LinesOf(_, _)
LinesOf(prs, field) ==
  IF prs = <<>> THEN 0
  ELSE (IF field \in DOMAIN Head(prs) THEN Head(prs)[field] ELSE 0) + LinesOf(Tail(prs), field)

\* the shared counters of the record of a call are those of its own arguments
OwnArgumentsOnly(c) ==
  LET g == c.github
      m == c.result
  IN /\ m.totalCommits = Len(g.commits)
     /\ m.pullRequests.total = Len(g.pullRequests)
     /\ m.pullRequests.merged = CountStates(g.pullRequests, {"merged"})
     /\ m.pullRequests.open = CountStates(g.pullRequests, {"open"})
     /\ m.pullRequests.closed =
          Len(g.pullRequests) - CountStates(g.pullRequests, {"merged", "open"})
     /\ m.additions = LinesOf(g.pullRequests, "additions")
     /\ m.deletions = LinesOf(g.pullRequests, "deletions")
     /\ m.reviews.total = Len(g.reviews)
     /\ m.reviews.approved = CountStates(g.reviews, {"APPROVED"})
     /\ m.reviews.changesRequested = CountStates(g.reviews, {"CHANGES_REQUESTED"})
     /\ m.reviews.commented =
          Len(g.reviews) - CountStates(g.reviews, {"APPROVED", "CHANGES_REQUESTED"})
     /\ Has(m, "jira") <=> (c.jira # Undefined /\ Len(c.jira.issues) > 0)
     /\ Has(m, "jira") => m.jira.totalIssues = Len(c.jira.issues)

NotConfiguredAtCall ==
  /\ gen # Idle
  /\ (ApiKeyName \notin DOMAIN gen.envAtCall \/ gen.envAtCall[ApiKeyName] = "")

C20_FallbackWithoutKey ==
  NotConfiguredAtCall =>
    /\ gen.pc = "done"
    /\ gen.aiCalls = 0
    /\ gen.report.kind = "fallback"
    /\ gen.report.fn = gen.fn
    /\ "Hint" \in gen.report.parts

C20_Witness ==
  /\ NotConfiguredAtCall
  /\ ApiKeyName \in DOMAIN gen.envAtCall
  /\ gen.fn = "retro"
  /\ gen.pc = "done"
  /\ gen.aiCalls = 0
  /\ "Hint" \in gen.report.parts
  /\ "JiraCompletion" \in gen.report.parts

(***************************************************************************)
(* C21: when ANTHROPIC_API_KEY was configured at the call and the Anthropic *)
(* request fails (it rejects, or its response has no text block), each of  *)
(* generateDailyReport, generateWeeklyReport and generateRetrospective     *)
(* resolves with its own fallback report; its promise never rejects.       *)
(***************************************************************************)
ConfiguredAtCall ==
  /\ gen # Idle
  /\ ApiKeyName \in DOMAIN gen.envAtCall
  /\ gen.envAtCall[ApiKeyName] # ""

AICallFailed ==
  /\ gen.pc = "done"
  /\ gen.outcome \in {"noText", "rejected"}

C21_FailureEndsInFallback ==
  /\ gen.pc = "done" => gen.settled = "resolved"
  /\ (ConfiguredAtCall /\ AICallFailed) =>
       /\ gen.settled = "resolved"
       /\ gen.report.kind = "fallback"
       /\ gen.report.fn = gen.fn
       /\ {"Commits", "PullRequests", "Reviews"} \subseteq gen.report.parts

C21_Witness ==
  /\ ConfiguredAtCall
  /\ AICallFailed
  /\ gen.outcome = "noText"
  /\ gen.fn = "weekly"
  /\ gen.settled = "resolved"
  /\ gen.report.kind = "fallback"

(***************************************************************************)
(* C22: isAIConfigured returns true exactly when ANTHROPIC_API_KEY is set  *)
(* to a non-empty string and false when it is unset or empty; it reads the *)
(* variable anew on every call, so that two calls between which the        *)
(* variable was set or deleted differ in their results.                    *)
(***************************************************************************)
KeyIsNonEmpty(e) == \E k \in DOMAIN e : k = ApiKeyName /\ e[k] # ""

ConfiguredCalls == {i \in DOMAIN calls : calls[i].fn = "isAIConfigured"}

C22_ConfiguredIffKeyNonEmpty ==
  /\ \A i \in ConfiguredCalls :
       /\ calls[i].result \in BOOLEAN
       /\ calls[i].result <=> KeyIsNonEmpty(calls[i].env)
  /\ \A i, j \in ConfiguredCalls :
       (KeyIsNonEmpty(calls[i].env) # KeyIsNonEmpty(calls[j].env))
         => calls[i].result # calls[j].result

C22_Witness ==
  /\ Len(calls) = 3
  /\ ConfiguredCalls = {1, 2, 3}
  /\ calls[1].env = NoKey /\ calls[1].result = FALSE
  /\ KeyIsNonEmpty(calls[2].env) /\ calls[2].result = TRUE
  /\ ApiKeyName \in DOMAIN calls[3].env /\ calls[3].env[ApiKeyName] = ""
  /\ calls[3].result = FALSE

(***************************************************************************)
(* C23: in a fallback report of generateDailyReport, generateWeeklyReport  *)
(* or generateRetrospective the Jira text (the issue lines, and for the    *)
(* retrospective the 'Jira Completion' row) appears if and only if a       *)
(* ticket collection with at least one issue was supplied.                 *)
(***************************************************************************)
FallbackReturned ==
  /\ gen.pc = "done"
  /\ gen.settled = "resolved"
  /\ gen.report.kind = "fallback"

JiraParts == {"JiraIssues", "JiraCompletion"}

C23_JiraTextIffTickets ==
  FallbackReturned =>
    IF TicketCount > 0
    THEN /\ "JiraIssues" \in gen.report.parts
         /\ Len(gen.report.issues) = TicketCount
         /\ \A i \in DOMAIN gen.report.issues :
              gen.report.issues[i] = jira.issues[i].status
         /\ gen.fn = "retro" <=> "JiraCompletion" \in gen.report.parts
    ELSE /\ gen.report.parts \cap JiraParts = {}
         /\ gen.report.issues = <<>>

C23_Witness ==
  /\ FallbackReturned
  /\ gen.fn = "retro"
  /\ TicketCount = 1
  /\ JiraParts \subseteq gen.report.parts
  /\ Len(gen.report.issues) = 1

(***************************************************************************)
(* C24, as stated: whenever analyzeSprintActivity returns a non-null       *)
(* avgMergeTimeHours, the value is strictly greater than 0, also for a     *)
(* single pull request merged one minute after its creation.               *)
(***************************************************************************)
C24_NonNullIsPositive ==
  (SprintCalled /\ sprintResult.avgMergeTimeHours # Null) =>
    sprintResult.avgMergeTimeHours.tenths > 0

(***************************************************************************)
(* C24, amended: a non-null avgMergeTimeHours is never negative; it is     *)
(* strictly greater than 0 when the mean of the accumulated durations is   *)
(* at least three minutes (0.05 hours, 180000 ms), and it is 0 when that   *)
(* mean is shorter.                                                        *)
(***************************************************************************)
C24_PositiveFromThreeMinutes ==
  (SprintCalled /\ sprintResult.avgMergeTimeHours # Null) =>
    LET avg == sprintResult.avgMergeTimeHours
    IN /\ Qualifying # {}
       /\ avg.tenths >= 0
       /\ avg.tenths > 0 <=>
            DurationSum(Qualifying) >= Cardinality(Qualifying) * 180000

C24_Witness ==
  /\ SprintCalled
  /\ Len(PRs) = 2
  /\ \A i \in 1..2 : PRs[i].state = "merged" /\ PRs[i].createdAt = T0 /\ Has(PRs[i], "mergedAt")
  /\ PRs[1].mergedAt = T3min
  /\ PRs[2].mergedAt = T3min
  /\ sprintResult.avgMergeTimeHours = Num(1)

(***************************************************************************)
(* C25: whenever analyzeSprintActivity populates jira, for every string t  *)
(* met as an issue type (resp. priority), 'constructor', 'toString' and    *)
(* numeric-looking strings included, byType[t] (resp. byPriority[t]) is a  *)
(* number equal to the count of tickets whose issueType (resp. priority)   *)
(* is exactly t, and the values of byType, like those of byPriority, sum   *)
(* to totalIssues.                                                         *)
(***************************************************************************)
TicketsWith(field, t) == {i \in DOMAIN jira.issues : jira.issues[i][field] = t}

RECURSIVE SumOfCounts(_, _)
SumOfCounts(map, keys) ==
  IF keys = {} THEN 0
  ELSE LET k == CHOOSE x \in keys : TRUE
       IN (IF map[k].type = "number" THEN map[k].value ELSE 0)
          + SumOfCounts(map, keys \ {k})

GroupCountsExact(map, field) ==
  /\ \A i \in DOMAIN jira.issues :
       LET t == jira.issues[i][field]
       IN GetProperty(map, t) = Count(Cardinality(TicketsWith(field, t)))
  /\ \A k \in DOMAIN map : map[k].type = "number"
  /\ SumOfCounts(map, DOMAIN map) = sprintResult.jira.totalIssues

C25_GroupCountsExact ==
  (SprintCalled /\ Has(sprintResult, "jira")) =>
    /\ GroupCountsExact(sprintResult.jira.byType, "issueType")
    /\ GroupCountsExact(sprintResult.jira.byPriority, "priority")

(***************************************************************************)
(* C26: in the weekly reducer's output the per-repository counters         *)
(* partition the global ones: summed over the repoBreakdown entries,       *)
(* commits is totalCommits, pullRequests is pullRequests.total, merged is  *)
(* pullRequests.merged, additions and deletions are the global additions   *)
(* and deletions, and reviews is reviews.total.                            *)
(***************************************************************************)
RECURSIVE BreakdownSum(_, _)
BreakdownSum(entries, field) ==
  IF entries = <<>> THEN 0
  ELSE Head(entries)[field] + BreakdownSum(Tail(entries), field)

C26_BreakdownPartitionsTotals ==
  WeeklyCalled =>
    LET b == weeklyResult.repoBreakdown
    IN /\ BreakdownSum(b, "commits") = weeklyResult.totalCommits
       /\ BreakdownSum(b, "pullRequests") = weeklyResult.pullRequests.total
       /\ BreakdownSum(b, "merged") = weeklyResult.pullRequests.merged
       /\ BreakdownSum(b, "additions") = weeklyResult.additions
       /\ BreakdownSum(b, "deletions") = weeklyResult.deletions
       /\ BreakdownSum(b, "reviews") = weeklyResult.reviews.total

C26_Witness ==
  /\ WeeklyCalled
  /\ Len(weeklyResult.repoBreakdown) = 2
  /\ weeklyResult.totalCommits = 1
  /\ weeklyResult.pullRequests.total = 1
  /\ weeklyResult.pullRequests.merged = 1
  /\ weeklyResult.additions > 0
  /\ weeklyResult.deletions > 0
  /\ weeklyResult.reviews.total = 1
  /\ \A i \in 1..2 : RepoActivity(weeklyResult.repoBreakdown[i]) > 0

(***************************************************************************)
(* C27, as stated: within one call of generateDailyReport,                 *)
(* generateWeeklyReport or generateRetrospective the Anthropic API is      *)
(* invoked at most once and the metrics reducer is run exactly once,       *)
(* before the configured/not-configured decision.                          *)
(***************************************************************************)
C27_ReducerOnceInEveryCall ==
  gen # Idle =>
    /\ gen.aiCalls <= 1
    /\ gen.reducerCalls = 1

(***************************************************************************)
(* C27, amended: within one call the Anthropic API is invoked at most once *)
(* (once on the configured path, also after a failure; never on the other  *)
(* path); generateWeeklyReport and generateRetrospective run their metrics *)
(* reducer exactly once, before the configured/not-configured decision,    *)
(* and the fallback report of either path is built from that one metrics   *)
(* object; generateDailyReport runs no metrics reducer.                    *)
(***************************************************************************)
MetricsAtCall ==
  CASE gen.fn = "daily" -> NoMetrics
    [] gen.fn = "weekly" -> calculateWeeklyMetrics(github, jira)
    [] gen.fn = "retro" -> analyzeSprintActivity(github, jira)

BuiltFromMetrics ==
  CASE gen.fn = "daily" -> TRUE
    [] gen.fn = "weekly" ->
         "RepositoryBreakdown" \in gen.report.parts
           <=> Len(gen.metrics.repoBreakdown) > 0
    [] gen.fn = "retro" ->
         /\ "AvgMergeTime" \in gen.report.parts
              <=> gen.metrics.avgMergeTimeHours # Null
         /\ "JiraCompletion" \in gen.report.parts <=> Has(gen.metrics, "jira")

C27_OneRequestOneReduction ==
  gen # Idle =>
    /\ gen.aiCalls = IF KeyIsNonEmpty(gen.envAtCall) THEN 1 ELSE 0
    /\ gen.reducerCalls = IF gen.fn = "daily" THEN 0 ELSE 1
    /\ gen.metrics = MetricsAtCall
    /\ FallbackReturned => BuiltFromMetrics

C27_Witness ==
  /\ gen # Idle
  /\ gen.fn = "retro"
  /\ gen.pc = "done"
  /\ gen.outcome = "rejected"
  /\ gen.aiCalls = 1
  /\ gen.reducerCalls = 1
  /\ gen.report.kind = "fallback"
  /\ "AvgMergeTime" \in gen.report.parts

(***************************************************************************)
(* C28: a fallback report returned because the Anthropic request failed    *)
(* (the key was configured when the generate* function decided to send     *)
(* it) never has the 'Set ANTHROPIC_API_KEY' hint line, whatever other     *)
(* code does to the variable while the request is awaited; the hint is     *)
(* only in reports of calls that took the not-configured path.             *)
(***************************************************************************)
C28_NoHintAfterAIFailure ==
  (gen.pc = "done" /\ gen.settled = "resolved" /\ "Hint" \in
     (IF gen.report.kind = "fallback" THEN gen.report.parts ELSE {}))
    => /\ ~KeyIsNonEmpty(gen.envAtCall)
       /\ gen.aiCalls = 0

(***************************************************************************)
(* C29: every call of generateDailyReport, generateWeeklyReport or         *)
(* generateRetrospective eventually resolves with a report, on each of the *)
(* three paths (key not configured; the request answers with a text block; *)
(* the request fails), provided the request to the Anthropic API settles.  *)
(* A call that stops awaiting has resolved with a report, and every call   *)
(* in progress gets there.                                                 *)
(***************************************************************************)
ResolvedWithReport ==
  /\ gen.pc = "done"
  /\ gen.settled = "resolved"
  /\ "report" \in DOMAIN gen
  /\ gen.report.kind \in {"ai", "fallback"}
  /\ gen.report.fn = gen.fn

C29_EveryCallResolves ==
  /\ [][(gen # Idle /\ gen' # gen) =>
          \/ (gen.pc = "awaiting" /\ ResolvedWithReport')
          \/ (ResolvedWithReport /\ gen' = Idle)]_vars
  /\ [][(gen = Idle /\ gen' # Idle) =>
          (gen'.pc = "awaiting" \/ ResolvedWithReport')]_vars
  /\ (gen # Idle) ~> ResolvedWithReport

C29_Witness ==
  /\ ResolvedWithReport
  /\ gen.fn = "daily"
  /\ gen.outcome = "text"
  /\ gen.report.kind = "ai"
  /\ KeyIsNonEmpty(gen.envAtCall)

(***************************************************************************)
(* C30, as stated: in analyzeSprintActivity mergeRate is 100 only if every *)
(* pull request is merged (merged = total > 0), and mergeRate is 0 only if *)
(* no pull request is merged (merged = 0), for collections of any size.    *)
(***************************************************************************)
C30_ExtremesAreExact ==
  SprintCalled =>
    LET p == sprintResult.pullRequests
    IN /\ p.mergeRate = 100 => (p.merged = p.total /\ p.total > 0)
       /\ p.mergeRate = 0 => p.merged = 0

(***************************************************************************)
(* C30, amended: mergeRate is 100 only if there are pull requests and at   *)
(* most one in 200 of them is not merged, which for fewer than 200 pull    *)
(* requests means that every one is merged; mergeRate is 0 only if fewer   *)
(* than one in 200 pull requests is merged, which for at most 200 pull     *)
(* requests means that none is merged.                                     *)
(***************************************************************************)
C30_ExtremesWithinHalfPercent ==
  SprintCalled =>
    LET p == sprintResult.pullRequests
    IN /\ p.mergeRate = 100 =>
            /\ p.total > 0
            /\ 200 * (p.total - p.merged) <= p.total
            /\ p.total < 200 => p.merged = p.total
       /\ p.mergeRate = 0 =>
            /\ 200 * p.merged < p.total \/ p.total = 0
            /\ p.total <= 200 => p.merged = 0

C30_Witness ==
  /\ SprintCalled
  /\ Len(PRs) = MaxManyPRs
  /\ sprintResult.pullRequests.merged = MaxManyPRs - 1
  /\ sprintResult.pullRequests.open = 1
  /\ sprintResult.pullRequests.mergeRate = 100

====
